---- MODULE Spec2Model ----
(***************************************************************************)
(* A model of nats_client: NatsBroker (broker.py), CreateService           *)
(* (service.py, and the legacy utils/service.py), ActionSchema (schema.py) *)
(* and the helpers of utils.py.                                            *)
(*                                                                         *)
(* Python values are records [t |-> type name, v |-> repr]; bytes on the   *)
(* wire are strings holding the JSON text; a dict with string keys (an     *)
(* envelope, a call context) is a TLA+ record with the same keys.          *)
(***************************************************************************)
EXTENDS Integers, Sequences, FiniteSets, TLC

VARIABLES
    nc,         \* NatsBroker.nc: 0 is None, h > 0 the transport handle h
    is_done,    \* NatsBroker.is_done: the closed-signal future (id 0 is None)
    transport,  \* transport[h]: "connected" / "closed", one per handle created
    connPc,     \* connect(): "idle", "connecting" (suspended in nats.connect)
    cbPending,  \* handles whose closed callback the transport still has to invoke
    cbExtra,    \* further invocations of closed_cb made so far
    cbRaised,   \* an invocation of closed_cb has raised
    reg,        \* the CreateService registrar
    passed,     \* the arguments of the add calls, in call order
    nAdds,      \* add() calls made so far
    subs,       \* the transport's subscription table, in creation order
    cs,         \* create_service(): the call in progress
    nRegisters, \* register() calls made so far
    regLog,     \* the create_service calls that returned, with the list's length
    inv,        \* message-handler invocations, one per delivery
    nMsgs,      \* messages put on the transport so far
    req,        \* request(): the call in progress or its outcome
    last        \* the last finished Broker Connection operation and its outcome

vars == <<nc, is_done, transport, connPc, cbPending, cbExtra, cbRaised, reg,
          passed, nAdds, subs, cs, nRegisters, regLog, inv, nMsgs, req, last>>

connVars == <<nc, is_done, transport, connPc, cbPending, cbExtra, cbRaised>>

regVars == <<reg, passed, nAdds>>

svcVars == <<cs, nRegisters, regLog>>

----------------------------------------------------------------------------
(* Bounds of the model *)

MaxConnects == 2
MaxCbExtra == 2
MaxAdds == 2
MaxWorkers == 2
MaxRegisters == 2
MaxMsgs == 2
MaxDeliveries == 1
MaxSubscribes == 1

----------------------------------------------------------------------------
(* Python values *)

PyNone == [t |-> "NoneType", v |-> "None"]
PyTrue == [t |-> "bool", v |-> "True"]
PyFalse == [t |-> "bool", v |-> "False"]
PyOne == [t |-> "int", v |-> "1"]
PyStr(s) == [t |-> "str", v |-> s]
PyDictX == [t |-> "dict", v |-> "{'x': 1}"]
PyDictXY == [t |-> "dict", v |-> "{'x': 1, 'y': 0}"]
PyDictEmpty == [t |-> "dict", v |-> "{}"]
PyList == [t |-> "list", v |-> "[1]"]
PyTuple == [t |-> "tuple", v |-> "(1,)"]
PyMoney == [t |-> "Money", v |-> "<Money with __json__>"]
PyObject == [t |-> "object", v |-> "<object>"]

\* The texts of the exceptions the model raises, as str(exc) gives them.
NotConnectedText == "NATS client is not connected."
BadText == "bad"
KeyErrorText == "'payload'"
DecodeErrorText == "Expecting property name enclosed in double quotes: line 1 column 2 (char 1)"
NotMappingText == "argument after ** must be a mapping"
MissingFieldText == "x field required"
NotSerializableText(v) == "Object of type " \o v.t \o " is not JSON serializable"

ClosedText == "nats: connection closed"
RemoteText == "remote failure"

ErrorTexts ==
    {NotConnectedText, BadText, KeyErrorText, DecodeErrorText, NotMappingText,
     MissingFieldText, NotSerializableText(PyObject), ClosedText, RemoteText}

\* The values json.loads can produce.
JsonValues ==
    {PyNone, PyTrue, PyFalse, PyOne, PyDictX, PyDictXY, PyDictEmpty, PyList}
        \cup {PyStr(s) : s \in ErrorTexts}

\* bool(v)
Truthy(v) ==
    ~ (v \in {PyNone, PyFalse, PyDictEmpty, PyStr("")})

\* A raised exception or a returned value.
Raise(kind, text) == [ok |-> FALSE, exc |-> kind, text |-> text]
Return(v) == [ok |-> TRUE, val |-> v]

----------------------------------------------------------------------------
(* utils.py *)

\* A faulty prefix_topic: the separators are escaped (dots become dashes).
prefix_topic_escaped(service_name, service_version, action_name) ==
    "v" \o service_version \o "-" \o service_name \o "-" \o action_name

prefix_topic(service_name, service_version, action_name) ==
    "v" \o service_version \o "." \o service_name \o "." \o action_name

\* broker.py:_default_json_serializer
default_json_serializer(obj) ==
    IF obj = PyMoney THEN Return(PyDictX)
    ELSE Raise("TypeError", NotSerializableText(obj))

\* json.dumps of a value json knows: the JSON text.
JsonText(v) ==
    CASE v = PyNone -> "null"
      [] v = PyTrue -> "true"
      [] v = PyFalse -> "false"
      [] v = PyOne -> "1"
      [] v = PyDictX -> "{\"x\": 1}"
      [] v = PyDictXY -> "{\"x\": 1, \"y\": 0}"
      [] v = PyDictEmpty -> "{}"
      [] v \in {PyList, PyTuple} -> "[1]"
      [] v.t = "str" -> "\"" \o v.v \o "\""

\* encode_json(payload, default): the bytes, or the TypeError json.dumps raises.
encode_json(payload, default) ==
    IF payload \in JsonValues \cup {PyTuple} THEN Return(JsonText(payload))
    ELSE IF default
         THEN LET d == default_json_serializer(payload)
              IN IF d.ok THEN Return(JsonText(d.val)) ELSE d
         ELSE Raise("TypeError", NotSerializableText(payload))

\* decode_json(payload): the value, or the JSONDecodeError json.loads raises.
decode_json(payload) ==
    IF \E v \in JsonValues : JsonText(v) = payload
    THEN Return(CHOOSE v \in JsonValues : JsonText(v) = payload)
    ELSE Raise("JSONDecodeError", DecodeErrorText)

----------------------------------------------------------------------------
(* NatsBroker: connect, closed_cb, _assert_connected *)

\* The closed-signal: `sets` counts the set_result calls on it and `calls` the
\* invocations of closed_cb since it was created.
NoFuture == [id |-> 0, done |-> FALSE, value |-> PyNone, sets |-> 0, calls |-> 0]

\* loop.create_future()
create_future(id) ==
    [id |-> id, done |-> FALSE, value |-> PyNone, sets |-> 0, calls |-> 0]

\* connect(), lines 36-38: a new closed-signal, then suspended in nats.connect.
ConnectBegin ==
    /\ connPc = "idle"
    /\ is_done.id < MaxConnects
    /\ is_done' = create_future(is_done.id + 1)
    /\ connPc' = "connecting"
    /\ UNCHANGED <<nc, transport, cbPending, cbExtra, cbRaised>>

\* connect(), lines 39-43: nats.connect returned a handle.
ConnectOk ==
    /\ connPc = "connecting"
    /\ transport' = Append(transport, "connected")
    /\ nc' = Len(transport) + 1
    /\ connPc' = "idle"
    /\ UNCHANGED <<is_done, cbPending, cbExtra, cbRaised>>

\* connect(), lines 44-46: nats.connect raised; logged and raised again.
ConnectFail ==
    /\ connPc = "connecting"
    /\ connPc' = "idle"
    /\ UNCHANGED <<nc, is_done, transport, cbPending, cbExtra, cbRaised>>

\* A faulty closed_cb: no check that the future is still pending.
closed_cb_unguarded ==
    IF is_done.id # 0
    THEN IF is_done.done
         THEN /\ cbRaised' = TRUE
              /\ is_done' = [is_done EXCEPT !.calls = @ + 1]
         ELSE /\ is_done' = [is_done EXCEPT !.done = TRUE, !.value = PyTrue,
                                             !.sets = @ + 1, !.calls = @ + 1]
              /\ UNCHANGED cbRaised
    ELSE UNCHANGED <<is_done, cbRaised>>

\* closed_cb(), lines 48-51.  set_result on a future that is done raises
\* InvalidStateError.
closed_cb ==
    IF is_done.id # 0 /\ ~ is_done.done
    THEN /\ is_done' = [is_done EXCEPT !.done = TRUE, !.value = PyTrue,
                                        !.sets = @ + 1, !.calls = @ + 1]
         /\ UNCHANGED cbRaised
    ELSE /\ is_done' = IF is_done.id # 0 THEN [is_done EXCEPT !.calls = @ + 1]
                       ELSE is_done
         /\ UNCHANGED cbRaised

\* The transport of handle h closes: is_connected turns false and the closed
\* callback given to nats.connect is due.
TransportClose(h) ==
    /\ transport[h] = "connected"
    /\ transport' = [transport EXCEPT ![h] = "closed"]
    /\ cbPending' = cbPending \cup {h}
    /\ UNCHANGED <<nc, is_done, connPc, cbExtra, cbRaised>>

\* The transport invokes the closed callback of handle h.
ClosedCb(h) ==
    /\ h \in cbPending
    /\ cbPending' = cbPending \ {h}
    /\ closed_cb
    /\ UNCHANGED <<nc, transport, connPc, cbExtra>>

\* closed_cb invoked once more (it is a public coroutine of the broker).
ClosedCbAgain ==
    /\ cbExtra < MaxCbExtra
    /\ cbExtra' = cbExtra + 1
    /\ closed_cb
    /\ UNCHANGED <<nc, transport, connPc, cbPending>>

\* The broker holds a transport handle that reports connected: recorded with
\* every operation, as the state it was invoked in.
Connected == nc # 0 /\ transport[nc] = "connected"

\* _assert_connected(), lines 124-126: self.nc and self.nc.is_connected.
is_connected(h) == h # 0 /\ transport[h] = "connected"

----------------------------------------------------------------------------
(* schema.py: ActionSchema, and the handlers and the validator of the model *)

ActionSchema(name, handle, queue, validate) ==
    [name |-> name, handle |-> handle, queue |-> queue, validate |-> validate]

\* name="echo": lambda ctx: ctx["payload"]; queue and validate left at their
\* defaults (True, None).
Echo == ActionSchema("echo", "echo", TRUE, "None")
\* name="strict": raises ValueError("bad") unless the payload is truthy, and
\* returns payload["x"]; no queue group.
Strict == ActionSchema("strict", "strict", FALSE, "None")
\* name="get.user": the echo handler behind a validator.
Checked == ActionSchema("get.user", "echo", TRUE, "Model")
\* name="export": returns an object json.dumps does not know; no queue group.
Opaque == ActionSchema("export", "opaque", FALSE, "None")

Schemas == {Echo, Strict, Checked}

\* dict.get(key): None when the key is missing.
Get(d, key) == IF key \in DOMAIN d THEN d[key] ELSE PyNone

\* await action.handle(ctx)
Handle(handle, ctx) ==
    CASE handle = "echo" ->
            IF "payload" \in DOMAIN ctx THEN Return(ctx["payload"])
            ELSE Raise("KeyError", KeyErrorText)
      [] handle = "strict" ->
            IF Truthy(Get(ctx, "payload")) /\ Get(ctx, "payload") \in {PyDictX, PyDictXY}
            THEN Return(PyOne)
            ELSE Raise("ValueError", BadText)
      [] handle = "opaque" -> Return(PyObject)

\* A faulty validator call: whatever was decoded is passed on as valid.
Validate_lenient(payload) == Return(payload)

\* action.validate(**payload).dict(): a model with a required field x and a
\* field y that defaults to 0.
Validate(payload) ==
    IF payload.t # "dict" THEN Raise("TypeError", NotMappingText)
    ELSE IF payload \in {PyDictX, PyDictXY} THEN Return(PyDictXY)
    ELSE Raise("ValidationError", MissingFieldText)

----------------------------------------------------------------------------
(* service.py and utils/service.py: CreateService *)

\* What a caller hands to add(actions=...).
OneSchema(s) == [kind |-> "schema", schema |-> s]
ListOf(items) == [kind |-> "list", items |-> items]
TupleOf(items) == [kind |-> "tuple", items |-> items]
NoActions == [kind |-> "None"]

\* The schemas in an argument of add, in order.
SchemasOf(arg) ==
    CASE arg.kind = "schema" -> <<arg.schema>>
      [] arg.kind \in {"list", "tuple"} -> arg.items
      [] arg.kind = "None" -> <<>>

\* list.extend(new_actions)
Extend(list, items) == list \o [i \in 1..Len(items) |-> OneSchema(items[i])]

\* CreateService.add: service.py lines 18-23; utils/service.py lines 17-22
\* (legacy), whose else branch appends a missing argument too.
add(actions, new_actions, legacy) ==
    IF new_actions.kind = "list" THEN Extend(actions, new_actions.items)
    ELSE IF new_actions.kind # "None" \/ legacy THEN Append(actions, new_actions)
    ELSE actions

Add(new_actions) ==
    /\ nAdds < MaxAdds
    /\ nAdds' = nAdds + 1
    /\ reg' = [reg EXCEPT !.actions = add(reg.actions, new_actions, reg.legacy)]
    /\ passed' = Append(passed, new_actions)
    /\ UNCHANGED <<connVars, subs, svcVars, inv, nMsgs, req, last>>

\* CreateService.register is a call of create_service, below.

----------------------------------------------------------------------------
(* NatsBroker.create_service *)

\* An operation's outcome: what it returned or raised, the transport calls it
\* made, and whether the broker was connected when it was invoked.
NoOutcome == [op |-> "none", outcome |-> Return(PyNone), calls |-> 0, live |-> FALSE]
Outcome(op, outcome, calls, live) ==
    [op |-> op, outcome |-> outcome, calls |-> calls, live |-> live]

CsIdle == [pc |-> "idle", h |-> 0, k |-> 0, calls |-> 0, live |-> FALSE]

\* The k-th pass of `for action in actions: for worker_id in range(workers)`.
PassAction(k) == reg.actions[((k - 1) \div reg.workers) + 1]
PassWorker(k) == (k - 1) % reg.workers
HasPass(k) == reg.workers > 0 /\ k <= Len(reg.actions) * reg.workers

\* A faulty queue key: every worker of an action shares one queue group.
queue_key_shared(subject, worker_id, action) ==
    IF action.queue THEN PyStr(subject) ELSE PyNone

\* f"{subject}-{worker_id}" if action.queue else None, line 151.
queue_key(subject, worker_id, action) ==
    IF action.queue THEN PyStr(subject \o "-" \o ToString(worker_id)) ELSE PyNone

\* The subscription nc.subscribe(subject, queue, cb) adds to the table of handle h.
\* `call` and `pass` say which create_service call and which pass made it.
Subscription(h, subject, queue, kind, action, decoder, pass) ==
    [h |-> h, subject |-> subject, queue |-> queue, kind |-> kind,
     action |-> action, decoder |-> decoder, call |-> nRegisters, pass |-> pass,
     active |-> TRUE, limit |-> 0, received |-> 0]

\* Lines 146-156 of pass k: the subscription of one (action, worker) pair.
ServiceSubscription(h, k) ==
    LET action == PassAction(k).schema
        subject == prefix_topic(reg.name, reg.version, action.name)
    IN Subscription(h, subject, queue_key(subject, PassWorker(k), action),
                    "action", action, "json", k)

\* create_service from where pass k starts: it returns when the loops are over,
\* fails on an element that has no name, and else suspends in nc.subscribe.
CsContinue(h, k, calls, live, call) ==
    IF ~ HasPass(k)
    THEN /\ cs' = CsIdle
         /\ last' = Outcome("create_service", Return(PyNone), calls, live)
         /\ regLog' = Append(regLog, [call |-> call, n |-> Len(reg.actions)])
    ELSE IF PassAction(k).kind # "schema"
    THEN /\ cs' = CsIdle
         /\ last' = Outcome("create_service",
                            Raise("AttributeError", "object has no attribute 'name'"),
                            calls, live)
         /\ UNCHANGED regLog
    ELSE /\ cs' = [pc |-> "run", h |-> h, k |-> k, calls |-> calls, live |-> live]
         /\ UNCHANGED <<last, regLog>>

\* A faulty register: a registrar that was registered is not registered again.
RegisterOnce ==
    /\ cs.pc = "idle"
    /\ nRegisters < MaxRegisters
    /\ nRegisters' = nRegisters + 1
    /\ IF is_connected(nc)
       THEN IF nRegisters = 0
            THEN CsContinue(nc, 1, 0, Connected, nRegisters + 1)
            ELSE /\ last' = Outcome("create_service", Return(PyNone), 0, Connected)
                 /\ regLog' = Append(regLog, [call |-> nRegisters + 1,
                                              n |-> Len(reg.actions)])
                 /\ UNCHANGED cs
       ELSE /\ last' = Outcome("create_service",
                               Raise("RuntimeError", NotConnectedText), 0, Connected)
            /\ UNCHANGED <<cs, regLog>>
    /\ UNCHANGED <<connVars, regVars, subs, inv, nMsgs, req>>

\* CreateService.register -> create_service, lines 140-142.
Register ==
    /\ cs.pc = "idle"
    /\ nRegisters < MaxRegisters
    /\ nRegisters' = nRegisters + 1
    /\ IF is_connected(nc)
       THEN CsContinue(nc, 1, 0, Connected, nRegisters + 1)
       ELSE /\ last' = Outcome("create_service",
                               Raise("RuntimeError", NotConnectedText), 0, Connected)
            /\ UNCHANGED <<cs, regLog>>
    /\ UNCHANGED <<connVars, regVars, subs, inv, nMsgs, req>>

\* create_service, lines 152-157: nc.subscribe of pass k, then on to pass k+1.
CreateServiceStep ==
    /\ cs.pc = "run"
    /\ IF transport[cs.h] = "connected"
       THEN /\ subs' = Append(subs, ServiceSubscription(cs.h, cs.k))
            /\ CsContinue(cs.h, cs.k + 1, cs.calls + 1, cs.live, nRegisters)
       ELSE /\ cs' = CsIdle
            /\ last' = Outcome("create_service",
                               Raise("ConnectionClosedError", ClosedText),
                               cs.calls + 1, cs.live)
            /\ UNCHANGED <<subs, regLog>>
    /\ UNCHANGED <<connVars, regVars, nRegisters, inv, nMsgs, req>>

----------------------------------------------------------------------------
(* The transport: delivery of a message to the subscriptions of its subject *)

NoQueue(q) == q \in {PyNone, PyStr("")}

\* The subscriptions a message on `subject` can reach.
Live(subject) ==
    {i \in 1..Len(subs) :
        /\ subs[i].active
        /\ transport[subs[i].h] = "connected"
        /\ subs[i].subject = subject}

\* R is a set of receivers of one message: every subscription without a queue
\* group, and exactly one member of each queue group.
Receivers(subject, R) ==
    /\ R \subseteq Live(subject)
    /\ \A i \in Live(subject) :
          IF NoQueue(subs[i].queue) THEN i \in R
          ELSE Cardinality({j \in R : subs[j].queue = subs[i].queue}) = 1

NoCtx == [absent |-> TRUE]
NoResult == [ok |-> TRUE, val |-> PyNone, pending |-> TRUE]

\* The invocation of the callback of subscription i for message m.
Invocation(i, m, data, reply) ==
    [sub |-> i, msg |-> m, data |-> data, reply |-> reply, pc |-> "new",
     ctx |-> NoCtx, handled |-> 0, result |-> NoResult, sent |-> <<>>,
     failure |-> ""]

RECURSIVE SeqOfSet(_)
SeqOfSet(S) ==
    IF S = {} THEN <<>>
    ELSE LET i == CHOOSE x \in S : \A y \in S : x <= y
         IN <<i>> \o SeqOfSet(S \ {i})

\* Message nMsgs + 1 reaches the receivers R: one callback invocation each; a
\* subscription that got its limit of messages is removed.
Deliver(R, subject, data, reply) ==
    LET order == SeqOfSet(R)
    IN /\ inv' = inv \o [n \in 1..Len(order) |->
                            Invocation(order[n], nMsgs + 1, data, reply)]
       /\ subs' = [i \in 1..Len(subs) |->
                     IF i \in R
                     THEN [subs[i] EXCEPT
                             !.received = @ + 1,
                             !.active = ~ (subs[i].limit > 0
                                            /\ subs[i].received + 1 >= subs[i].limit)]
                     ELSE subs[i]]
       /\ nMsgs' = nMsgs + 1

\* A message another client of the server publishes: any bytes, with or
\* without a reply address.
Inbound(subject, data, reply) ==
    /\ nMsgs < MaxMsgs
    /\ \E R \in SUBSET Live(subject) :
          /\ Receivers(subject, R)
          /\ R # {}
          /\ Deliver(R, subject, data, reply)
    /\ UNCHANGED <<connVars, regVars, svcVars, req, last>>

----------------------------------------------------------------------------
(* The reply envelope on the wire *)

OkEnvelope(result) == [ok |-> PyTrue, result |-> result]
ErrEnvelope(text) == [ok |-> PyFalse, message |-> PyStr(text)]

\* The envelopes a responder can put on the wire: those of the envelope
\* contract, and two that break it (no "ok", no "message").
Envelopes ==
    {OkEnvelope(r) : r \in JsonValues}
        \cup {ErrEnvelope(t) : t \in ErrorTexts}
        \cup {[message |-> PyStr(BadText)], [ok |-> PyFalse]}

\* json.dumps of a dict with the keys of an envelope, in insertion order.
EnvelopeText(env) ==
    LET field(k) == "\"" \o k \o "\": " \o JsonText(env[k])
        keys == SelectSeq(<<"ok", "result", "message">>, LAMBDA k : k \in DOMAIN env)
    IN CASE Len(keys) = 1 -> "{" \o field(keys[1]) \o "}"
         [] Len(keys) = 2 -> "{" \o field(keys[1]) \o ", " \o field(keys[2]) \o "}"

\* encode_json of an envelope, without a default: the TypeError of a value
\* json.dumps does not know is raised.
encode_envelope(env) ==
    LET known(v) == v.t = "str" \/ v \in JsonValues \cup {PyTuple}
    IN IF \A k \in DOMAIN env : known(env[k])
       THEN Return(EnvelopeText(env))
       ELSE LET k == CHOOSE k \in DOMAIN env : ~ known(env[k])
            IN Raise("TypeError", NotSerializableText(env[k]))

\* decode_json of the bytes of a reply.
decode_envelope(data) ==
    IF \E e \in Envelopes : EnvelopeText(e) = data
    THEN Return(CHOOSE e \in Envelopes : EnvelopeText(e) = data)
    ELSE Raise("JSONDecodeError", DecodeErrorText)

\* str(v)
Str(v) == v.v

----------------------------------------------------------------------------
(* NatsBroker.request, call, emit *)

ReqIdle ==
    [pc |-> "idle", via |-> "none", topic |-> "", payload |-> PyNone, h |-> 0,
     inbox |-> "", from |-> 0, reply |-> "", response |-> NoCtx,
     outcome |-> NoResult, live |-> FALSE]

\* The reply address nc.request makes up for message m.
Inbox(m) == "_INBOX." \o ToString(m)

\* A faulty check of the envelope: every decoded envelope is returned.
reply_failed_never(response) == FALSE

\* `not response.get("ok")`, line 70.
reply_failed(response) == ~ Truthy(Get(response, "ok"))

\* request(), lines 63-68, entered through request, call or the emit capability
\* (lines 53-60): the connection check, the encoding, the send.
RequestBegin(via, topic, payload) ==
    /\ req.pc # "waiting"
    /\ nMsgs < MaxMsgs
    /\ IF ~ is_connected(nc)
       THEN /\ last' = Outcome(via, Raise("RuntimeError", NotConnectedText), 0,
                               Connected)
            /\ UNCHANGED <<req, inv, subs, nMsgs>>
       ELSE LET data == encode_json(payload, TRUE)
            IN IF ~ data.ok
               THEN /\ last' = Outcome(via, data, 0, Connected)
                    /\ UNCHANGED <<req, inv, subs, nMsgs>>
               ELSE /\ req' = [ReqIdle EXCEPT !.pc = "waiting", !.via = via,
                                  !.topic = topic, !.payload = payload, !.h = nc,
                                  !.live = Connected, !.reply = Inbox(nMsgs + 1)]
                    /\ \E R \in SUBSET Live(topic) :
                          /\ Receivers(topic, R)
                          /\ Deliver(R, topic, data.val, Inbox(nMsgs + 1))
                    /\ UNCHANGED last
    /\ UNCHANGED <<connVars, regVars, svcVars>>

\* request(), lines 69-72: the first reply arrived; decoded, checked, returned.
RequestReply ==
    /\ req.pc = "waiting"
    /\ req.inbox # ""
    /\ LET response == decode_envelope(req.inbox)
           outcome ==
               IF ~ response.ok THEN response
               ELSE IF reply_failed(response.val)
               THEN Raise("RuntimeError", Str(Get(response.val, "message")))
               ELSE Return(response.val)
       IN /\ req' = [req EXCEPT !.pc = "done", !.outcome = outcome,
                        !.response = IF response.ok THEN response.val ELSE NoCtx]
          /\ last' = Outcome(req.via, outcome, 1, req.live)
    /\ UNCHANGED <<connVars, regVars, subs, svcVars, inv, nMsgs>>

\* request(), line 64: nc.request raised (no reply in time, no responder, or
\* the connection closed).
RequestTimeout ==
    /\ req.pc = "waiting"
    /\ req.inbox = ""
    /\ req' = [req EXCEPT !.pc = "done", !.outcome = Raise("TimeoutError", "nats: timeout")]
    /\ last' = Outcome(req.via, Raise("TimeoutError", "nats: timeout"), 1, req.live)
    /\ UNCHANGED <<connVars, regVars, subs, svcVars, inv, nMsgs>>

\* A responder that is not this process answers the request in flight, on a
\* subject this process does not serve.
RemoteReply(env) ==
    /\ req.pc = "waiting"
    /\ req.inbox = ""
    /\ Live(req.topic) = {}
    /\ transport[req.h] = "connected"
    /\ req' = [req EXCEPT !.inbox = EnvelopeText(env)]
    /\ UNCHANGED <<connVars, regVars, subs, svcVars, inv, nMsgs, last>>

----------------------------------------------------------------------------
(* NatsBroker.publish, subscribe, unsubscribe *)

\* publish(), lines 85-93.
Publish(subject, payload, reply, flush) ==
    /\ nMsgs < MaxMsgs
    /\ IF ~ is_connected(nc)
       THEN /\ last' = Outcome("publish", Raise("RuntimeError", NotConnectedText), 0,
                               Connected)
            /\ UNCHANGED <<inv, subs, nMsgs>>
       ELSE LET data == encode_json(payload, TRUE)
            IN IF ~ data.ok
               THEN /\ last' = Outcome("publish", data, 0, Connected)
                    /\ UNCHANGED <<inv, subs, nMsgs>>
               ELSE /\ \E R \in SUBSET Live(subject) :
                          /\ Receivers(subject, R)
                          /\ Deliver(R, subject, data.val, reply)
                    /\ last' = Outcome("publish", Return(PyNone),
                                       IF flush THEN 2 ELSE 1, Connected)
    /\ UNCHANGED <<connVars, regVars, svcVars, req>>

\* subscribe(), lines 105-113: queue_arg = queue or "".
Subscribe(subject, queue, decoder) ==
    /\ Cardinality({i \in 1..Len(subs) : subs[i].kind = "plain"}) < MaxSubscribes
    /\ IF ~ is_connected(nc)
       THEN /\ last' = Outcome("subscribe", Raise("RuntimeError", NotConnectedText), 0,
                               Connected)
            /\ UNCHANGED subs
       ELSE /\ subs' = Append(subs,
                         Subscription(nc, subject,
                                      IF Truthy(queue) THEN queue ELSE PyStr(""),
                                      "plain", Echo, decoder, 0))
            /\ last' = Outcome("subscribe", Return(PyNone), 1, Connected)
    /\ UNCHANGED <<connVars, regVars, svcVars, inv, nMsgs, req>>

\* unsubscribe(), lines 115-122, of a subscription that subscribe returned: a
\* static method, which goes to the subscription without a look at the broker.
Unsubscribe(i, max_msgs) ==
    /\ i \in 1..Len(subs)
    /\ subs[i].kind = "plain"
    /\ IF transport[subs[i].h] # "connected"
       THEN /\ last' = Outcome("unsubscribe",
                               Raise("ConnectionClosedError", ClosedText), 1, Connected)
            /\ UNCHANGED subs
       ELSE IF ~ subs[i].active
       THEN /\ last' = Outcome("unsubscribe",
                               Raise("BadSubscriptionError", "nats: invalid subscription"),
                               1, Connected)
            /\ UNCHANGED subs
       ELSE /\ subs' = [subs EXCEPT
                          ![i].limit = max_msgs,
                          ![i].active = ~ (max_msgs = 0 \/ subs[i].received >= max_msgs)]
            /\ last' = Outcome("unsubscribe", Return(PyNone), 1, Connected)
    /\ UNCHANGED <<connVars, regVars, svcVars, inv, nMsgs, req>>

----------------------------------------------------------------------------
(* NatsBroker._context, _prefix_action.msg_handle, subscribe._callback *)

\* A faulty context: one shared by the invocations, holding the message that
\* came in last.
context_latest(m, payload) ==
    IF ~ is_connected(nc) THEN Raise("RuntimeError", NotConnectedText)
    ELSE IF payload # PyNone
    THEN Return([broker |-> nc, emit |-> "emit_handle", msg |-> nMsgs,
                 payload |-> payload])
    ELSE Return([broker |-> nc, emit |-> "emit_handle", msg |-> nMsgs])

\* _context(msg, payload), lines 178-187; the not-connected error of
\* _require_client is raised from it.
context(m, payload) ==
    IF ~ is_connected(nc) THEN Raise("RuntimeError", NotConnectedText)
    ELSE IF payload # PyNone
    THEN Return([broker |-> nc, emit |-> "emit_handle", msg |-> m,
                 payload |-> payload])
    ELSE Return([broker |-> nc, emit |-> "emit_handle", msg |-> m])

\* A faulty test of the reply address: a reply is sent to every message.
has_reply_always(reply) == TRUE

\* `if msg.reply`, lines 169 and 173.
has_reply(reply) == reply # ""

\* A faulty error envelope: the message is the name of the exception class.
error_envelope_kind(exc) == [ok |-> PyFalse, message |-> PyStr(exc.exc)]

\* {"ok": False, "message": str(exc)}, line 174.
error_envelope(exc) == [ok |-> PyFalse, message |-> PyStr(exc.text)]

\* A faulty result envelope: the result under ok: false.
result_envelope_false(result) == [ok |-> PyFalse, result |-> result]

\* {"ok": True, "result": result}, line 170.
result_envelope(result) == [ok |-> PyTrue, result |-> result]

\* msg.respond(data) on the handle the message came in on: the bytes sent to
\* the reply address, or the error the transport raises.
respond(i, data) ==
    IF inv[i].reply = ""
    THEN Raise("Error", "no reply subject available")
    ELSE IF transport[subs[inv[i].sub].h] # "connected"
    THEN Raise("ConnectionClosedError", ClosedText)
    ELSE Return(data)

\* The except clause of msg_handle, lines 171-174, for the exception exc: the
\* fields of the invocation it leaves.
Except(i, exc) ==
    IF has_reply(inv[i].reply)
    THEN LET data == encode_envelope(error_envelope(exc))
             sent == IF data.ok THEN respond(i, data.val) ELSE data
         IN IF sent.ok
            THEN [pc |-> "done", sent |-> <<sent.val>>, failure |-> exc.text]
            ELSE [pc |-> "escaped", sent |-> <<>>, failure |-> sent.text]
    ELSE [pc |-> "done", sent |-> <<>>, failure |-> exc.text]

\* The reply of invocation i reaches the request that waits for it.
Arrive(i, sent) ==
    IF /\ sent # <<>>
       /\ req.pc = "waiting"
       /\ req.reply = inv[i].reply
       /\ req.inbox = ""
       /\ transport[req.h] = "connected"
    THEN req' = [req EXCEPT !.inbox = sent[1], !.from = i]
    ELSE UNCHANGED req

\* msg_handle, lines 161-167: decode, context, validation, and the handler
\* called; a failure before the handler goes to the except clause at once.
MsgHandleInvoke(i) ==
    /\ i \in 1..Len(inv)
    /\ inv[i].pc = "new"
    /\ subs[inv[i].sub].kind = "action"
    /\ LET action == subs[inv[i].sub].action
           payload == decode_json(inv[i].data)
           ctx0 == IF payload.ok THEN context(inv[i].msg, payload.val) ELSE payload
           valid == IF ctx0.ok /\ action.validate # "None"
                    THEN Validate(payload.val) ELSE ctx0
           ctx == IF ctx0.ok /\ action.validate # "None" /\ valid.ok
                  THEN Return([ctx0.val EXCEPT !.payload = valid.val])
                  ELSE valid
       IN IF ctx.ok
          THEN /\ inv' = [inv EXCEPT ![i].pc = "running", ![i].ctx = ctx.val,
                             ![i].handled = @ + 1,
                             ![i].result = Handle(action.handle, ctx.val)]
               /\ UNCHANGED req
          ELSE LET e == Except(i, ctx)
               IN /\ inv' = [inv EXCEPT ![i].pc = e.pc, ![i].sent = e.sent,
                                ![i].failure = e.failure,
                                ![i].ctx = IF ctx0.ok THEN ctx0.val ELSE NoCtx]
                  /\ Arrive(i, e.sent)
    /\ UNCHANGED <<connVars, regVars, subs, svcVars, nMsgs, last>>

\* msg_handle, lines 167-174: the handler returned or raised; the reply.
MsgHandleRespond(i) ==
    /\ i \in 1..Len(inv)
    /\ inv[i].pc = "running"
    /\ subs[inv[i].sub].kind = "action"
    /\ LET result == inv[i].result
           data == IF result.ok THEN encode_envelope(result_envelope(result.val))
                   ELSE result
           sent == IF data.ok THEN respond(i, data.val) ELSE data
           e == IF ~ result.ok THEN Except(i, result)
                ELSE IF ~ has_reply(inv[i].reply)
                THEN [pc |-> "done", sent |-> <<>>, failure |-> ""]
                ELSE IF sent.ok
                THEN [pc |-> "done", sent |-> <<sent.val>>, failure |-> ""]
                ELSE Except(i, sent)
       IN /\ inv' = [inv EXCEPT ![i].pc = e.pc, ![i].sent = e.sent,
                        ![i].failure = e.failure]
          /\ Arrive(i, e.sent)
    /\ UNCHANGED <<connVars, regVars, subs, svcVars, nMsgs, last>>

\* subscribe._callback, lines 107-110: decoder, context, handler; nothing is
\* caught.
Callback(i) ==
    /\ i \in 1..Len(inv)
    /\ inv[i].pc = "new"
    /\ subs[inv[i].sub].kind = "plain"
    /\ LET payload == IF subs[inv[i].sub].decoder = "None"
                      THEN Return([t |-> "bytes", v |-> inv[i].data])
                      ELSE decode_json(inv[i].data)
           ctx == IF payload.ok THEN context(inv[i].msg, payload.val) ELSE payload
       IN inv' = [inv EXCEPT
                    ![i].pc = IF ctx.ok THEN "done" ELSE "escaped",
                    ![i].ctx = IF ctx.ok THEN ctx.val ELSE NoCtx,
                    ![i].handled = IF ctx.ok THEN 1 ELSE 0,
                    ![i].failure = IF ctx.ok THEN "" ELSE ctx.text]
    /\ UNCHANGED <<connVars, regVars, subs, svcVars, nMsgs, req, last>>

----------------------------------------------------------------------------
(* The specifications *)

Registrar(version, name, workers, legacy) ==
    [version |-> version, name |-> name, workers |-> workers, actions |-> <<>>,
     legacy |-> legacy]

\* The state after NatsBroker(...) and CreateService(version, name, workers).
InitBroker ==
    /\ nc = 0
    /\ is_done = NoFuture
    /\ transport = <<>>
    /\ connPc = "idle"
    /\ cbPending = {}
    /\ cbExtra = 0
    /\ cbRaised = FALSE
    /\ subs = <<>>
    /\ cs = CsIdle
    /\ nRegisters = 0
    /\ regLog = <<>>
    /\ inv = <<>>
    /\ nMsgs = 0
    /\ req = ReqIdle
    /\ last = NoOutcome
    /\ passed = <<>>
    /\ nAdds = 0

\* The subject of action a of the registrar.
SubjectOf(a) == prefix_topic(reg.name, reg.version, a.name)

otherVars == <<regVars, subs, svcVars, inv, nMsgs, req, last>>

(* Spec: one service (version "1", name "svc", one worker) of the actions     *)
(* echo, strict and get.user on one broker, and the messages it serves.       *)

WireData == {"null", "{\"x\": 1}", "{}", "{oops"}
RemoteEnvelopes ==
    {ErrEnvelope(RemoteText), [message |-> PyStr(BadText)], [ok |-> PyFalse],
     OkEnvelope(PyList)}

Init ==
    /\ InitBroker
    /\ reg = Registrar("1", "svc", 1, FALSE)

\* The messages of other clients: fire-and-forget ones of any bytes, and one
\* that cannot be decoded with a reply address.
InboundMessages ==
    {<<Echo, d, "">> : d \in WireData}
        \cup {<<Strict, "null", "">>, <<Strict, "{\"x\": 1}", "">>,
              <<Checked, "{}", "">>, <<Checked, "{\"x\": 1}", "">>,
              <<Echo, "{oops", "reply.to">>}

\* The requests of this process: (action, payload).
Requests ==
    {<<Echo, PyNone>>, <<Echo, PyDictX>>, <<Echo, PyObject>>,
     <<Strict, PyDictEmpty>>, <<Strict, PyDictX>>, <<Checked, PyDictEmpty>>}

Next ==
    \/ is_done.id = 0 /\ ConnectBegin /\ UNCHANGED otherVars
    \/ ConnectOk /\ UNCHANGED otherVars
    \/ \E h \in 1..Len(transport) : TransportClose(h) /\ UNCHANGED otherVars
    \/ nAdds = 0 /\ Add(ListOf(<<Echo, Strict, Checked>>))
    \/ nRegisters = 0 /\ Register
    \/ CreateServiceStep
    \/ \E m \in InboundMessages : Inbound(SubjectOf(m[1]), m[2], m[3])
    \/ \E r \in Requests : RequestBegin("request", SubjectOf(r[1]), r[2])
    \/ RequestBegin("call", SubjectOf(Echo), PyDictX)
    \/ RequestBegin("emit", SubjectOf(Strict), PyDictEmpty)
    \/ RequestReply
    \/ RequestTimeout
    \/ \E e \in RemoteEnvelopes : RemoteReply(e)
    \/ \E i \in 1..Len(inv) : MsgHandleInvoke(i)
    \/ \E i \in 1..Len(inv) : MsgHandleRespond(i)

Spec == Init /\ [][Next]_vars

(* SpecConn: the connection of one broker through connects, closures and      *)
(* closed callbacks, and its operations used for plain publish/subscribe on   *)
(* the subject "events" (the registrar holds no action).                      *)

NextConn ==
    \/ ConnectBegin /\ UNCHANGED otherVars
    \/ ConnectOk /\ UNCHANGED otherVars
    \/ ConnectFail /\ UNCHANGED otherVars
    \/ \E h \in 1..Len(transport) : TransportClose(h) /\ UNCHANGED otherVars
    \/ \E h \in cbPending : ClosedCb(h) /\ UNCHANGED otherVars
    \/ nRegisters = 0 /\ Register
    \/ \E via \in {"request", "call", "emit"} :
          nMsgs = 0 /\ RequestBegin(via, "events", PyDictX)
    \/ RequestReply
    \/ RequestTimeout
    \/ RemoteReply(OkEnvelope(PyList))
    \/ \E f \in BOOLEAN : nMsgs = 0 /\ Publish("events", PyMoney, "", f)
    \/ Subscribe("events", PyNone, "json")
    \/ Subscribe("events", PyStr("workers"), "None")
    \/ \E i \in 1..Len(subs), m \in {0, 1} : Unsubscribe(i, m)
    \/ \E i \in 1..Len(inv) : Callback(i)

SpecConn == Init /\ [][NextConn]_vars

(* SpecDispatch: the Dispatch Adapter of the three actions, from the state    *)
(* connect(), add(actions=[echo, strict, get.user]) and register() leave, fed *)
(* by other clients' messages with and without a reply address.               *)

InitDispatch ==
    /\ nc = 1
    /\ is_done = create_future(1)
    /\ transport = <<"connected">>
    /\ connPc = "idle"
    /\ cbPending = {}
    /\ cbExtra = 0
    /\ cbRaised = FALSE
    /\ reg = [Registrar("1", "svc", 1, FALSE) EXCEPT
                !.actions = add(<<>>, ListOf(<<Echo, Strict, Checked>>), FALSE)]
    /\ passed = <<ListOf(<<Echo, Strict, Checked>>)>>
    /\ nAdds = 1
    /\ nRegisters = 1
    /\ subs = [k \in 1..3 |-> ServiceSubscription(1, k)]
    /\ cs = CsIdle
    /\ regLog = <<[call |-> 1, n |-> 3]>>
    /\ inv = <<>>
    /\ nMsgs = 0
    /\ req = ReqIdle
    /\ last = Outcome("create_service", Return(PyNone), 3, TRUE)

DispatchMessages ==
    {<<Strict, "null", "">>, <<Strict, "null", "reply.to">>,
     <<Strict, "{\"x\": 1}", "">>, <<Strict, "{\"x\": 1}", "reply.to">>,
     <<Echo, "null", "reply.to">>, <<Echo, "{oops", "">>,
     <<Echo, "{oops", "reply.to">>, <<Checked, "{}", "reply.to">>,
     <<Checked, "{\"x\": 1}", "reply.to">>}

NextDispatch ==
    \/ \E h \in 1..Len(transport) : TransportClose(h) /\ UNCHANGED otherVars
    \/ \E m \in DispatchMessages : Inbound(SubjectOf(m[1]), m[2], m[3])
    \/ \E i \in 1..Len(inv) : MsgHandleInvoke(i)
    \/ \E i \in 1..Len(inv) : MsgHandleRespond(i)

SpecDispatch == InitDispatch /\ [][NextDispatch]_vars

(* SpecRequest: request, call and the emit capability of a connected broker   *)
(* on a subject another process serves, and every envelope that process can   *)
(* answer with.                                                               *)

InitRequest ==
    /\ nc = 1
    /\ is_done = create_future(1)
    /\ transport = <<"connected">>
    /\ connPc = "idle"
    /\ cbPending = {}
    /\ cbExtra = 0
    /\ cbRaised = FALSE
    /\ reg = Registrar("1", "svc", 1, FALSE)
    /\ passed = <<>>
    /\ nAdds = 0
    /\ nRegisters = 0
    /\ subs = <<>>
    /\ cs = CsIdle
    /\ regLog = <<>>
    /\ inv = <<>>
    /\ nMsgs = 0
    /\ req = ReqIdle
    /\ last = NoOutcome

NextRequest ==
    \/ \E h \in 1..Len(transport) : TransportClose(h) /\ UNCHANGED otherVars
    \/ \E via \in {"request", "call", "emit"}, payload \in {PyDictX, PyObject} :
          RequestBegin(via, "v1.other.op", payload)
    \/ \E e \in Envelopes : RemoteReply(e)
    \/ RequestReply
    \/ RequestTimeout

SpecRequest == InitRequest /\ [][NextRequest]_vars

(* SpecSignal: the closed-signal of one broker through connects, failed       *)
(* connects, closures and invocations of the closed callback.                 *)

NextSignal ==
    \/ ConnectBegin /\ UNCHANGED otherVars
    \/ ConnectOk /\ UNCHANGED otherVars
    \/ ConnectFail /\ UNCHANGED otherVars
    \/ \E h \in 1..Len(transport) : TransportClose(h) /\ UNCHANGED otherVars
    \/ \E h \in cbPending : ClosedCb(h) /\ UNCHANGED otherVars
    \/ ClosedCbAgain /\ UNCHANGED otherVars

SpecSignal == Init /\ [][NextSignal]_vars

(* SpecService: registrars of any version and worker count, filled by one add *)
(* call and registered again and again, and the messages their subscriptions  *)
(* get.                                                                       *)

Versions == {"1", "2.0"}
ServiceAdds == {OneSchema(Echo), OneSchema(Strict), ListOf(<<Strict, Checked>>)}

InitService ==
    /\ InitBroker
    /\ \E v \in Versions, w \in 0..MaxWorkers : reg = Registrar(v, "svc", w, FALSE)

NextService ==
    \/ is_done.id = 0 /\ ConnectBegin /\ UNCHANGED otherVars
    \/ ConnectOk /\ UNCHANGED otherVars
    \/ \E h \in 1..Len(transport) : TransportClose(h) /\ UNCHANGED otherVars
    \/ \E a \in ServiceAdds : nAdds = 0 /\ Add(a)
    \/ Register
    \/ CreateServiceStep
    \/ \E a \in Schemas :
          nMsgs < MaxDeliveries /\ Inbound(SubjectOf(a), "{\"x\": 1}", "")

SpecService == InitService /\ [][NextService]_vars

(* SpecRegistrar: the registrars of service.py and of utils/service.py, and   *)
(* every kind of argument of add.                                             *)

AddArgs ==
    {OneSchema(Echo), OneSchema(Checked), ListOf(<<Echo, Strict>>), ListOf(<<>>),
     TupleOf(<<Echo, Strict>>), NoActions}

InitRegistrar ==
    /\ InitBroker
    /\ \E v \in Versions, w \in 0..MaxWorkers, legacy \in BOOLEAN :
          reg = Registrar(v, "svc", w, legacy)

NextRegistrar ==
    \/ \E a \in AddArgs : Add(a)
    \/ Register

SpecRegistrar == InitRegistrar /\ [][NextRegistrar]_vars

(* SpecConnect: connect() as its caller sees it, on a broker whose registrar  *)
(* holds the echo action: connects that fail and that succeed, each followed  *)
(* by the operations of the Broker Connection.                                *)

ConnectErrorText == "nats: no servers available for connection"

\* A faulty connect: the failure of nats.connect is logged and swallowed.
ConnectSwallow ==
    /\ ConnectFail
    /\ last' = Outcome("connect", Return(PyNone), 1, Connected)
    /\ UNCHANGED <<regVars, subs, svcVars, inv, nMsgs, req>>

\* connect(), lines 44-46, as seen by the caller: the exception of nats.connect
\* is raised again.
ConnectRaise ==
    /\ ConnectFail
    /\ last' = Outcome("connect", Raise("NoServersError", ConnectErrorText), 1,
                       Connected)
    /\ UNCHANGED <<regVars, subs, svcVars, inv, nMsgs, req>>

\* connect(), lines 39-43, as seen by the caller: it returns None.
ConnectReturn ==
    /\ ConnectOk
    /\ last' = Outcome("connect", Return(PyNone), 1, Connected)
    /\ UNCHANGED <<regVars, subs, svcVars, inv, nMsgs, req>>

InitConnect ==
    /\ InitBroker
    /\ reg = [Registrar("1", "svc", 1, FALSE) EXCEPT
                !.actions = add(<<>>, OneSchema(Echo), FALSE)]

NextConnect ==
    \/ ConnectBegin /\ UNCHANGED otherVars
    \/ ConnectRaise
    \/ ConnectReturn
    \/ \E h \in 1..Len(transport) : TransportClose(h) /\ UNCHANGED otherVars
    \/ \E via \in {"request", "call", "emit"} :
          nMsgs = 0 /\ RequestBegin(via, "events", PyDictX)
    \/ RequestTimeout
    \/ \E f \in BOOLEAN : nMsgs = 0 /\ Publish("events", PyDictX, "", f)
    \/ Subscribe("events", PyNone, "json")
    \/ nRegisters = 0 /\ Register
    \/ CreateServiceStep

SpecConnect == InitConnect /\ [][NextConnect]_vars

(* SpecReplies: the replies of the Dispatch Adapter of a service registered   *)
(* on the first connection of a broker that was connected a second time: the  *)
(* subscriptions are on handle 1 and the broker's own handle is 2.            *)

InitReplies ==
    /\ nc = 2
    /\ is_done = create_future(2)
    /\ transport = <<"connected", "connected">>
    /\ connPc = "idle"
    /\ cbPending = {}
    /\ cbExtra = 0
    /\ cbRaised = FALSE
    /\ reg = [Registrar("1", "svc", 1, FALSE) EXCEPT
                !.actions = add(<<>>, ListOf(<<Echo, Strict, Checked, Opaque>>), FALSE)]
    /\ passed = <<ListOf(<<Echo, Strict, Checked, Opaque>>)>>
    /\ nAdds = 1
    /\ nRegisters = 1
    /\ subs = [k \in 1..4 |-> ServiceSubscription(1, k)]
    /\ cs = CsIdle
    /\ regLog = <<[call |-> 1, n |-> 4]>>
    /\ inv = <<>>
    /\ nMsgs = 0
    /\ req = ReqIdle
    /\ last = Outcome("create_service", Return(PyNone), 4, TRUE)

RepliesMessages ==
    {<<Echo, "{\"x\": 1}", "reply.to">>, <<Echo, "{oops", "reply.to">>,
     <<Strict, "null", "reply.to">>, <<Checked, "{}", "reply.to">>,
     <<Checked, "{\"x\": 1}", "reply.to">>, <<Opaque, "null", "reply.to">>,
     <<Opaque, "null", "">>}

NextReplies ==
    \/ \E h \in 1..Len(transport) : TransportClose(h) /\ UNCHANGED otherVars
    \/ \E m \in RepliesMessages : Inbound(SubjectOf(m[1]), m[2], m[3])
    \/ \E i \in 1..Len(inv) : MsgHandleInvoke(i)
    \/ \E i \in 1..Len(inv) : MsgHandleRespond(i)

SpecReplies == InitReplies /\ [][NextReplies]_vars

----------------------------------------------------------------------------
(* The claims *)

Range(f) == {f[i] : i \in DOMAIN f}
ActionSubs == {j \in 1..Len(subs) : subs[j].kind = "action"}
\* An invocation of the Dispatch Adapter whose handler was called and is over.
Handled(v) ==
    /\ subs[v.sub].kind = "action"
    /\ v.handled = 1
    /\ v.pc \in {"done", "escaped"}

\* C1: a request (through request, call or emit) that got a reply envelope
\* whose ok is false fails with a RuntimeError whose message is the
\* envelope's message; it returns an envelope only when the envelope's ok is
\* true, and then returns that envelope.
C1_FalseOkIsRaised ==
    (req.pc = "done" /\ req.response # NoCtx) =>
        /\ Get(req.response, "ok") = PyFalse =>
              req.outcome = Raise("RuntimeError", Str(Get(req.response, "message")))
        /\ req.outcome.ok =>
              /\ Get(req.response, "ok") = PyTrue
              /\ req.outcome.val = req.response

\* C1's case: {"ok": false, "message": "bad"} came back through the emit
\* capability and was raised with the message "bad".
C1_Witness ==
    /\ req.pc = "done"
    /\ req.via = "emit"
    /\ req.response = [ok |-> PyFalse, message |-> PyStr("bad")]
    /\ req.outcome = Raise("RuntimeError", "bad")

\* C3: when the handler of an action raised an exception of text m for a
\* message with a reply address, the one reply sent is the JSON text of
\* {"ok": false, "message": m} (none is sent only when the message's transport
\* closed meanwhile); the subscription stays, and a later message on it whose
\* handler returns is answered with {"ok": true, "result": ...}.
C3_HandlerErrorReply ==
    \A i \in 1..Len(inv) :
        (Handled(inv[i]) /\ inv[i].reply # "" /\ ~ inv[i].result.ok) =>
            /\ inv[i].pc = "done" =>
                  inv[i].sent = << "{\"ok\": false, \"message\": \""
                                      \o inv[i].result.text \o "\"}" >>
            /\ inv[i].pc = "escaped" =>
                  /\ inv[i].sent = <<>>
                  /\ transport[subs[inv[i].sub].h] = "closed"
            /\ subs[inv[i].sub].active
            /\ \A j \in 1..Len(inv) :
                  (/\ inv[j].sub = inv[i].sub
                   /\ inv[j].msg > inv[i].msg
                   /\ inv[j].reply # ""
                   /\ inv[j].pc = "done"
                   /\ inv[j].handled = 1
                   /\ inv[j].result.ok) =>
                      inv[j].sent = << "{\"ok\": true, \"result\": "
                                          \o JsonText(inv[j].result.val) \o "}" >>

\* C3's case: the handler raised ValueError("bad") for one request, and the
\* next request on the same subscription was answered with ok: true.
C3_Witness ==
    \E i, j \in 1..Len(inv) :
        /\ inv[i].sub = inv[j].sub
        /\ inv[i].msg < inv[j].msg
        /\ inv[i].result = Raise("ValueError", "bad")
        /\ inv[i].sent = << "{\"ok\": false, \"message\": \"bad\"}" >>
        /\ inv[j].result = Return(PyOne)
        /\ inv[j].sent = << "{\"ok\": true, \"result\": 1}" >>

\* C4: once the service is registered, a request with a JSON payload p on the
\* subject of the echo action, when the adapter answers it, returns
\* {"ok": true, "result": p}; and a message
\* with a reply address whose handler returned r is answered with
\* {"ok": true, "result": r}.
C4_EchoReturnsPayload ==
    /\ (/\ regLog # <<>>
        /\ req.pc = "done"
        /\ req.from # 0
        /\ req.topic = "v1.svc.echo"
        /\ req.payload \in JsonValues) =>
           req.outcome = Return([ok |-> PyTrue, result |-> req.payload])
    /\ \A i \in 1..Len(inv) :
          (Handled(inv[i]) /\ inv[i].reply # "" /\ inv[i].result.ok
              /\ inv[i].pc = "done") =>
                inv[i].sent = <<EnvelopeText([ok |-> PyTrue,
                                              result |-> inv[i].result.val])>>

\* C5: when the handler of an action raised for a message without a reply
\* address, nothing is sent, the message handler ends normally, and the
\* subscription stays.
C5_NoReplyNoEscape ==
    \A i \in 1..Len(inv) :
        (Handled(inv[i]) /\ inv[i].reply = "" /\ ~ inv[i].result.ok) =>
            /\ inv[i].pc = "done"
            /\ inv[i].sent = <<>>
            /\ subs[inv[i].sub].active

\* C5's case: a raising handler on a fire-and-forget message, and the message
\* delivered after it handled on the same subscription.
C5_Witness ==
    \E i, j \in 1..Len(inv) :
        /\ inv[i].sub = inv[j].sub
        /\ inv[i].msg < inv[j].msg
        /\ Handled(inv[i])
        /\ inv[i].reply = ""
        /\ ~ inv[i].result.ok
        /\ inv[i].pc = "done"
        /\ Handled(inv[j])
        /\ inv[j].result.ok

NotConnected(l) ==
    /\ l.outcome = Raise("RuntimeError", "NATS client is not connected.")
    /\ l.calls = 0

\* C2 as stated: every operation of the Broker Connection, unsubscribe
\* included, that is invoked while the broker is not connected fails with the
\* not-connected error and makes no transport call.
C2_AllOpsGated ==
    (last.op # "none" /\ ~ last.live) => NotConnected(last)

\* C8: the closed callback never raises; a closed-signal is resolved at most
\* once, is resolved as soon as the callback ran once after connect(), and its
\* value is True; before the first connect() there is no signal and the
\* callback does nothing; a resolved signal stays resolved with its value
\* until connect() puts a new one in its place.
C8_ClosedSignalOneShot ==
    /\ [](/\ ~ cbRaised
          /\ is_done.sets <= 1
          /\ is_done.calls >= 1 => is_done.done
          /\ is_done.done => (is_done.value = PyTrue /\ is_done.sets = 1)
          /\ is_done.id = 0 => is_done = NoFuture)
    /\ [][(is_done.done /\ is_done'.id = is_done.id) =>
             (/\ is_done'.done
              /\ is_done'.value = is_done.value
              /\ is_done'.sets = is_done.sets)]_vars

\* C8's case: the callback ran twice on the signal of one connect().
C8_Witness ==
    /\ is_done.id >= 1
    /\ is_done.calls >= 2
    /\ is_done.done
    /\ is_done.sets = 1
    /\ ~ cbRaised

\* The subscriptions create_service call c made for the a-th action of the list.
SubsOf(c, a) ==
    {j \in ActionSubs :
        subs[j].call = c /\ ((subs[j].pass - 1) \div reg.workers) + 1 = a}
\* The invocations a step adds: those of the message it delivers.
NewInvocations == {n \in 1..Len(inv') : n > Len(inv)}

\* C6: a create_service call that returned made, for each action of the list,
\* exactly `workers` subscriptions, all on the action's canonical subject; for
\* an action with queue=True their queue keys are the `workers` distinct
\* strings {subject}-0 .. {subject}-(workers-1), for an action with queue=False
\* none has a queue key; and a message is delivered to every live subscription
\* on its subject that has no queue key.
C6_WorkersPerAction ==
    /\ [](\A e \in Range(regLog) : \A a \in 1..e.n :
            LET action == reg.actions[a].schema
                subject == "v" \o reg.version \o "." \o reg.name \o "." \o action.name
                S == SubsOf(e.call, a)
            IN /\ Cardinality(S) = reg.workers
               /\ \A j \in S : subs[j].subject = subject
               /\ IF action.queue
                  THEN /\ {subs[j].queue : j \in S} =
                            {PyStr(subject \o "-" \o ToString(w)) :
                                w \in 0..(reg.workers - 1)}
                       /\ Cardinality({subs[j].queue : j \in S}) = reg.workers
                  ELSE \A j \in S : subs[j].queue = PyNone)
    /\ [][\A n \in NewInvocations :
            \A j \in Live(subs[inv'[n].sub].subject) :
                subs[j].queue = PyNone =>
                    \E n2 \in NewInvocations :
                        inv'[n2].sub = j /\ inv'[n2].msg = inv'[n].msg]_vars

\* C6's case: a registration with two workers returned, with an action that
\* has queue=True and one that has queue=False in the list, and one message on
\* the subject of the latter reached both of its subscriptions.
C6_Witness ==
    /\ reg.workers = 2
    /\ regLog # <<>>
    /\ \E a, b \in 1..regLog[1].n :
          reg.actions[a].schema.queue /\ ~ reg.actions[b].schema.queue
    /\ \E m, n \in 1..Len(inv) :
          /\ inv[m].msg = inv[n].msg
          /\ inv[m].sub # inv[n].sub
          /\ subs[inv[m].sub].call = subs[inv[n].sub].call
          /\ subs[inv[m].sub].queue = PyNone
          /\ subs[inv[n].sub].queue = PyNone

\* Every register so far returned, on one connection, with the list as it is.
AllRegistered ==
    /\ cs.pc = "idle"
    /\ Len(regLog) = nRegisters
    /\ \A e \in Range(regLog) : e.n = Len(reg.actions)
    /\ Len(transport) = 1

\* C7: after k register calls that returned, on one connection and with the
\* same list, every (action, worker index) pair has exactly k subscriptions,
\* one of each call, k * |actions| * workers in all; and a message is given
\* one invocation of the message handler for each subscription that receives
\* it: no subscription gets it twice, and of the subscriptions that share a
\* queue key exactly one gets it.
C7_RegisterDuplicates ==
    /\ [](AllRegistered =>
            /\ Cardinality(ActionSubs) = nRegisters * Len(reg.actions) * reg.workers
            /\ \A a \in 1..Len(reg.actions) : \A w \in 0..(reg.workers - 1) :
                  LET P == {j \in ActionSubs : subs[j].pass = (a - 1) * reg.workers + w + 1}
                  IN /\ Cardinality(P) = nRegisters
                     /\ {subs[j].call : j \in P} = 1..nRegisters)
    /\ [][/\ \A m, n \in NewInvocations : inv'[m].sub = inv'[n].sub => m = n
          /\ \A n \in NewInvocations :
                /\ inv'[n].sub \in Live(subs[inv'[n].sub].subject)
                /\ \A j \in Live(subs[inv'[n].sub].subject) :
                      Cardinality({n2 \in NewInvocations :
                                      subs[inv'[n2].sub].queue = subs[j].queue})
                          = IF subs[j].queue = PyNone
                            THEN Cardinality({i \in Live(subs[j].subject) :
                                                 subs[i].queue = PyNone})
                            ELSE 1]_vars

\* C7's case: register returned twice and one message was handed to the two
\* subscriptions the two calls made for the same (action, worker) pair.
C7_Witness ==
    /\ AllRegistered
    /\ nRegisters = 2
    /\ \E m, n \in 1..Len(inv) :
          /\ inv[m].msg = inv[n].msg
          /\ subs[inv[m].sub].call = 1
          /\ subs[inv[n].sub].call = 2
          /\ subs[inv[m].sub].pass = subs[inv[n].sub].pass

\* C9: every subscription create_service makes is on the literal string
\* v{version}.{name}.{action}, dots of the parts kept as they are, for the
\* action of the list its pass belongs to; hence the subscriptions of one
\* action are all on one subject, whichever call made them.
C9_CanonicalSubject ==
    \A j \in ActionSubs :
        /\ subs[j].subject =
              "v" \o reg.version \o "." \o reg.name \o "." \o subs[j].action.name
        /\ subs[j].action =
              reg.actions[((subs[j].pass - 1) \div reg.workers) + 1].schema
        /\ \A i \in ActionSubs :
              subs[i].action.name = subs[j].action.name =>
                  subs[i].subject = subs[j].subject

\* C9's case: version 2.0 and the action get.user, subscribed by two calls.
C9_Witness ==
    \E i, j \in ActionSubs :
        /\ subs[i].call # subs[j].call
        /\ subs[i].subject = "v2.0.svc.get.user"
        /\ subs[j].subject = "v2.0.svc.get.user"

RECURSIVE Concatenation(_)
\* The schemas of the arguments of the add calls, in call and sequence order.
Concatenation(args) ==
    IF args = <<>> THEN <<>>
    ELSE SchemasOf(Head(args)) \o Concatenation(Tail(args))

\* C10: after add calls that were each given one Action Schema or a sequence
\* (a list or a tuple) of Action Schemas, the action list holds the schemas
\* passed, in call order and in sequence order, and nothing but Action Schemas.
C10_AddConcatenates ==
    (\A n \in 1..Len(passed) : passed[n].kind \in {"schema", "list", "tuple"}) =>
        /\ \A n \in 1..Len(reg.actions) : reg.actions[n].kind = "schema"
        /\ Len(reg.actions) = Len(Concatenation(passed))
        /\ \A n \in 1..Len(reg.actions) :
              reg.actions[n] = OneSchema(Concatenation(passed)[n])

\* The invocations of the Dispatch Adapter (not of a subscribe callback).
ActionInvs == {i \in 1..Len(inv) : subs[inv[i].sub].kind = "action"}
\* The bytes json.loads accepts, and those the validator's model accepts.
DecodableData == {"null", "{}", "{\"x\": 1}"}
ValidData == {"{\"x\": 1}"}

\* C11: the handler of an action is called at most once per message, only for
\* bytes that decode and, behind a validator, only for a payload the validator
\* accepts; nothing is sent while the message waits or the handler runs: a
\* reply appears only in the step in which the handler's call ends or in the
\* step in which decoding, context or validation failed.
C11_StepOrder ==
    /\ [](\A i \in ActionInvs :
            /\ inv[i].handled <= 1
            /\ inv[i].handled = 1 =>
                  /\ inv[i].data \in DecodableData
                  /\ subs[inv[i].sub].action.validate # "None" =>
                        inv[i].data \in ValidData
            /\ inv[i].pc = "new" => (inv[i].handled = 0 /\ inv[i].sent = <<>>)
            /\ inv[i].pc = "running" => (inv[i].handled = 1 /\ inv[i].sent = <<>>)
            /\ Len(inv[i].sent) <= 1)
    /\ [][\A i \in ActionInvs :
            /\ inv'[i].handled # inv[i].handled =>
                  (inv[i].pc = "new" /\ inv'[i].pc = "running")
            /\ inv'[i].sent # inv[i].sent =>
                  \/ inv[i].pc = "running"
                  \/ (inv[i].pc = "new" /\ inv'[i].handled = 0
                         /\ inv'[i].failure # "")]_vars

\* C11's case: behind the validator, one message was rejected and answered
\* without a call of the handler, another was validated, handled and answered.
C11_Witness ==
    \E i, j \in ActionInvs :
        /\ subs[inv[i].sub].action.validate # "None"
        /\ inv[i].sub = inv[j].sub
        /\ inv[i].data = "{}"
        /\ inv[i].handled = 0
        /\ inv[i].pc = "done"
        /\ Len(inv[i].sent) = 1
        /\ inv[j].data = "{\"x\": 1}"
        /\ inv[j].handled = 1
        /\ inv[j].pc = "done"
        /\ inv[j].sent = << "{\"ok\": true, \"result\": {\"x\": 1, \"y\": 0}}" >>

\* C12: in the call context the handler is called with, the payload entry is
\* the validator's output ({"x": 1, "y": 0} for the decoded {"x": 1}) when the
\* action has a validator, and the decoded payload itself when it has none.
C12_PayloadSeen ==
    \A i \in ActionInvs :
        inv[i].handled = 1 =>
            IF subs[inv[i].sub].action.validate # "None"
            THEN /\ "payload" \in DOMAIN inv[i].ctx
                 /\ inv[i].ctx.payload = PyDictXY
                 /\ inv[i].ctx.payload # decode_json(inv[i].data).val
            ELSE /\ "payload" \in DOMAIN inv[i].ctx
                 /\ inv[i].ctx.payload = decode_json(inv[i].data).val

\* C13: when the bytes of a message to an action cannot be decoded, the
\* handler is not called and the message handler ends normally: with a reply
\* address the JSON text of {"ok": false, "message": m} is sent, without one
\* nothing is sent; the subscription stays and handles the messages after it.
C13_DecodeFailureContained ==
    \A i \in ActionInvs :
        (inv[i].data \notin DecodableData /\ inv[i].pc # "new") =>
            /\ inv[i].handled = 0
            /\ inv[i].pc = "done"
            /\ inv[i].sent = IF inv[i].reply # ""
                             THEN << "{\"ok\": false, \"message\": \""
                                        \o DecodeErrorText \o "\"}" >>
                             ELSE <<>>
            /\ subs[inv[i].sub].active
            /\ \A j \in ActionInvs :
                  (/\ inv[j].sub = inv[i].sub
                   /\ inv[j].msg > inv[i].msg
                   /\ inv[j].data \in DecodableData
                   /\ inv[j].pc = "done") => inv[j].handled = 1

\* The payload the call context of invocation v is built for: the bytes when
\* the subscription has no decoder, else the decoded payload.
DecodedPayload(v) ==
    IF subs[v.sub].kind = "plain" /\ subs[v.sub].decoder = "None"
    THEN [t |-> "bytes", v |-> v.data]
    ELSE decode_json(v.data).val

\* C14: every call context built for an inbound message holds the broker
\* reference, the emit capability, the message handle and a payload entry,
\* which is the decoded payload (the validator's output of it once the
\* validator accepted it), the JSON null and the empty object included.
C14_ContextComplete ==
    \A i \in 1..Len(inv) :
        inv[i].ctx # NoCtx =>
            /\ DOMAIN inv[i].ctx = {"broker", "emit", "msg", "payload"}
            /\ inv[i].ctx.broker \in 1..Len(transport)
            /\ inv[i].ctx.emit = "emit_handle"
            /\ inv[i].ctx.msg = inv[i].msg
            /\ LET decoded == DecodedPayload(inv[i])
                   valid == Validate(decoded)
               IN \/ inv[i].ctx.payload = decoded
                  \/ valid.ok /\ inv[i].ctx.payload = valid.val

\* C15: no failure of any step of handling a message (decoding, the call
\* context, validation, the handler, encoding or sending the reply) leaves the
\* message handler of an action, and the subscription stays.
C15_NothingEscapes ==
    \A i \in ActionInvs :
        /\ inv[i].pc \in {"new", "running", "done"}
        /\ subs[inv[i].sub].active

\* C16: a registrar has workers >= 1, so every create_service call that
\* returned for a registrar holding at least one action made at least one
\* subscription for each of its actions.
C16_WorkersPositive ==
    \A e \in Range(regLog) :
        e.n >= 1 =>
            /\ reg.workers >= 1
            /\ \A a \in 1..e.n :
                  \E j \in ActionSubs :
                      /\ subs[j].call = e.call
                      /\ subs[j].action = reg.actions[a].schema

\* The operations that go through the connection check.
GatedOps == {"request", "call", "emit", "publish", "subscribe", "create_service"}

\* C17: a connect() whose transport is not established ends by raising the
\* transport's failure and leaves the broker's transport handle as it was; as
\* long as no connect() of the broker succeeded it holds no handle, and every
\* request, publish, subscribe and create_service fails with the not-connected
\* error, without a transport call, a subscription or a message.
C17_FailedConnect ==
    /\ [](nc = 0 =>
            /\ transport = <<>>
            /\ last.op \in GatedOps => NotConnected(last)
            /\ subs = <<>>
            /\ nMsgs = 0
            /\ req.pc = "idle"
            /\ cs.pc = "idle")
    /\ [][(connPc = "connecting" /\ connPc' = "idle" /\ transport' = transport) =>
             /\ last'.op = "connect"
             /\ last'.outcome = Raise("NoServersError", ConnectErrorText)
             /\ nc' = nc]_vars

\* C17's case: the only connect() of the broker failed, and an operation
\* invoked after it failed with the not-connected error.
C17_Witness ==
    /\ is_done.id >= 1
    /\ connPc = "idle"
    /\ nc = 0
    /\ last.op \in GatedOps
    /\ NotConnected(last)

\* The texts of the two kinds of reply envelope.
OkTrueTexts == {EnvelopeText(OkEnvelope(r)) : r \in JsonValues}
OkFalseTexts == {EnvelopeText(ErrEnvelope(t)) : t \in ErrorTexts}

\* Decoding, validation or the handler failed for invocation v.
HandlingFailed(v) ==
    \/ v.data \notin DecodableData
    \/ subs[v.sub].action.validate # "None" /\ v.data \in DecodableData \ ValidData
    \/ v.handled = 1 /\ ~ v.result.ok

\* The call context could not be built, or the handler's result could not be
\* encoded, for invocation v.
ContextOrEncodingFailed(v) ==
    \/ v.handled = 0 /\ v.failure = NotConnectedText
    \/ v.handled = 1 /\ v.result.ok /\ v.result.val \notin JsonValues \cup {PyTuple}

C19_SignalOfCurrentHandle ==
    (/\ cbExtra = 0
     /\ connPc = "idle"
     /\ is_done.id = Len(transport)
     /\ is_done.done) =>
        /\ nc = Len(transport)
        /\ transport[nc] = "closed"
        /\ nc \notin cbPending

\* The reply to a message with the bytes `data` for the action `name`.
ReplyOf(name, data) ==
    CASE data = "{oops" ->
            "{\"ok\": false, \"message\": \"" \o DecodeErrorText \o "\"}"
      [] name = "echo" /\ data = "null" -> "{\"ok\": false, \"message\": \"'payload'\"}"
      [] name = "echo" /\ data = "{\"x\": 1}" -> "{\"ok\": true, \"result\": {\"x\": 1}}"
      [] name = "strict" /\ data = "null" -> "{\"ok\": false, \"message\": \"bad\"}"
      [] name = "strict" /\ data = "{\"x\": 1}" -> "{\"ok\": true, \"result\": 1}"
      [] name = "get.user" /\ data = "{}" ->
            "{\"ok\": false, \"message\": \"" \o MissingFieldText \o "\"}"
      [] name = "get.user" /\ data = "{\"x\": 1}" ->
            "{\"ok\": true, \"result\": {\"x\": 1, \"y\": 0}}"

\* C20: under every interleaving of the invocations of the message handler,
\* the call context of an invocation holds the message it was invoked for and
\* the payload of that message, its reply goes to a message that has a reply
\* address and is the reply to its own message's payload, and a step of one
\* invocation changes nothing of any other invocation.
C20_InvocationsIndependent ==
    /\ [](\A i \in ActionInvs :
            /\ inv[i].ctx # NoCtx =>
                  /\ inv[i].ctx.msg = inv[i].msg
                  /\ "payload" \in DOMAIN inv[i].ctx =>
                        LET valid == Validate(decode_json(inv[i].data).val)
                        IN \/ inv[i].ctx.payload = decode_json(inv[i].data).val
                           \/ valid.ok /\ inv[i].ctx.payload = valid.val
            /\ inv[i].sent # <<>> =>
                  /\ inv[i].reply # ""
                  /\ inv[i].sent = <<ReplyOf(subs[inv[i].sub].action.name, inv[i].data)>>)
    /\ [][\A i \in 1..Len(inv) :
            inv'[i] # inv[i] =>
                \A j \in 1..Len(inv) : j # i => inv'[j] = inv[j]]_vars

\* C20's case: two invocations for different payloads overlap, the one for
\* the later message has sent its reply while the one for the earlier message
\* is still in its handler.
C20_Witness ==
    \E i, j \in ActionInvs :
        /\ inv[i].msg < inv[j].msg
        /\ inv[i].data # inv[j].data
        /\ inv[i].pc = "running"
        /\ inv[i].ctx.msg = inv[i].msg
        /\ inv[j].pc = "done"
        /\ inv[j].handled = 1
        /\ inv[j].ctx.msg = inv[j].msg
        /\ inv[j].sent = <<ReplyOf(subs[inv[j].sub].action.name, inv[j].data)>>

====
